---- MODULE Spec2Model ----
(***************************************************************************)
(* Quiz generation and scoring pipeline of the MCQ quiz game:              *)
(*   mcq_generator.py  clean_json_response, generate_questions_by_         *)
(*                     difficulty, generate_quiz                           *)
(*   app.py            api_login, api_logout, api_generate_game,           *)
(*                     api_submit_game                                     *)
(*   database.py       create_game_history                                 *)
(*                                                                         *)
(* Strings that the code only stores and compares are TLA+ strings.        *)
(* Strings the code computes on are modelled by what the computation       *)
(* needs: a topic and a raw service response are sequences of tokens       *)
(* (strip, replace), a dictionary key is a sequence of decimal digits      *)
(* (int), an answer label is a one-letter string (lower).                  *)
(*                                                                         *)
(* A Flask session is the cookie a browser holds. A client is one          *)
(* connection of a browser; c1 and c2 belong to one browser, c3 to         *)
(* another. The requests of one client follow each other, those of         *)
(* different clients overlap. A generate request takes one step per call   *)
(* of the generation service; its session is the cookie it was sent with,  *)
(* and the browser takes the changed session from its response.            *)
(***************************************************************************)
EXTENDS Integers, Sequences, FiniteSets, TLC

VARIABLES
    session,    \* browser -> the Flask session (the contents of its cookie)
    gen,        \* client -> the generate request in flight (generate_quiz's locals),
                \*   the calls of the generation service the client's last request
                \*   made and the session that request was sent with
    resp,       \* client -> the last HTTP response the client received
    req,        \* client -> the body of the last submit request the client sent
    history,    \* the game_history table: sequence of rows, oldest first
    stats,      \* the users table's counters: user_id -> games_played, games_won
    db_call,    \* client -> the create_game_history call of its last request, if any
    users       \* the users table's usernames: sequence, user_id = position

vars == <<session, gen, resp, req, history, stats, db_call, users>>

----------------------------------------------------------------------------
(* Bounds of the model *)

\* rows the game_history table may hold before submits stop being explored
MaxGames == 1
\* how many entries fewer or more than requested a tier response may hold
MaxSkew == 1

\* the game_history rows the table takes while submit requests overlap
MaxOverlap == 2

Browsers == {"b1", "b2"}
Clients == {"c1", "c2", "c3"}
Users == {1, 2}

\* the browser whose cookie the requests of client c carry
BrowserOf(c) == IF c = "c3" THEN "b2" ELSE "b1"

----------------------------------------------------------------------------
(* Program constants *)

EASY_COUNT == 5
MEDIUM_COUNT == 3
HARD_COUNT == 2
QUIZ_SIZE == 10
WIN_SCORE == 7


Requested(t) ==
    CASE t = "EASY" -> EASY_COUNT
      [] t = "MEDIUM" -> MEDIUM_COUNT
      [] t = "HARD" -> HARD_COUNT

\* TierLower that names the first tier whatever the tier
TierLower_Easy(t) == "easy"

\* the tier as the failure messages of generate_quiz spell it
TierLower(t) ==
    CASE t = "EASY" -> "easy"
      [] t = "MEDIUM" -> "medium"
      [] t = "HARD" -> "hard"

\* NextTier that goes from EASY straight to HARD
NextTier_SkipMedium(t) ==
    CASE t = "EASY" -> "HARD"
      [] t = "MEDIUM" -> "HARD"
      [] t = "HARD" -> "done"

\* the tier generate_quiz calls after tier t has been appended
NextTier(t) ==
    CASE t = "EASY" -> "MEDIUM"
      [] t = "MEDIUM" -> "HARD"
      [] t = "HARD" -> "done"

Msg(text, args) == [text |-> text, args |-> args]

----------------------------------------------------------------------------
(* Python values *)

\* Python's None; also the result of json.loads("null")
None == [type |-> "None"]

PyDict(items) == [type |-> "dict", items |-> items]

\* a parsed JSON document that is not an object (a list, a number, a string)
PyList == [type |-> "list"]

\* the keys of a record-like value that are present
Has(d, k) == k \in DOMAIN d

\* Pop that leaves the key in place
Pop_Keep(d, k) == d

\* dict with key k removed (session.pop(k, None))
Pop(d, k) == [x \in (DOMAIN d) \ {k} |-> d[x]]

\* session.clear() that removes nothing
Clear_Keep(d) == d

\* the dict after clear()
Clear(d) == <<>>

\* dict with d[k] = v assigned
Put(d, k, v) == [x \in (DOMAIN d) \cup {k} |-> IF x = k THEN v ELSE d[x]]

\* dict.get(k, default)
Get(d, k, default) == IF k \in DOMAIN d THEN d[k] ELSE default

----------------------------------------------------------------------------
(* str.strip on a sequence of characters; " " is the whitespace character *)

RECURSIVE LStrip(_)
LStrip(s) ==
    IF s = <<>> THEN <<>>
    ELSE IF Head(s) = " " THEN LStrip(Tail(s)) ELSE s

RECURSIVE RStrip(_)
RStrip(s) ==
    IF s = <<>> THEN <<>>
    ELSE IF s[Len(s)] = " " THEN RStrip(SubSeq(s, 1, Len(s) - 1)) ELSE s

\* Strip that removes the leading whitespace only
Strip_Left(s) == LStrip(s)

\* str.strip
Strip(s) == RStrip(LStrip(s))

\* str.lower on the one-letter strings used as answer labels
Lower(ch) ==
    CASE ch = "A" -> "a"
      [] ch = "B" -> "b"
      [] ch = "C" -> "c"
      [] ch = "D" -> "d"
      [] ch = "E" -> "e"
      [] OTHER -> ch

----------------------------------------------------------------------------
(* The raw text of a service response: a sequence of tokens.               *)
(*   fence_json   the marker ```json                                       *)
(*   fence        the marker ```                                           *)
(*   ws           whitespace                                               *)
(*   prose        text that is not JSON                                    *)
(*   json         a complete JSON document, v its parsed value             *)

Tok(t) == [t |-> t]
JsonTok(v) == [t |-> "json", v |-> v]

RECURSIVE RemoveTok(_, _)
RemoveTok(text, t) ==
    IF text = <<>> THEN <<>>
    ELSE IF Head(text).t = t THEN RemoveTok(Tail(text), t)
         ELSE <<Head(text)>> \o RemoveTok(Tail(text), t)

RECURSIVE LStripTok(_)
LStripTok(text) ==
    IF text = <<>> THEN <<>>
    ELSE IF Head(text).t = "ws" THEN LStripTok(Tail(text)) ELSE text

RECURSIVE RStripTok(_)
RStripTok(text) ==
    IF text = <<>> THEN <<>>
    ELSE IF text[Len(text)].t = "ws"
         THEN RStripTok(SubSeq(text, 1, Len(text) - 1)) ELSE text

\* clean_json_response: drop both fence markers wherever they occur, then strip
clean_json_response(response_text) ==
    LET cleaned1 == RemoveTok(response_text, "fence_json")
        cleaned2 == RemoveTok(cleaned1, "fence")
    IN RStripTok(LStripTok(cleaned2))

\* json.loads accepts exactly one JSON document, with whitespace around it
JsonDecodes(text) ==
    LET body == RemoveTok(text, "ws")
    IN Len(body) = 1 /\ body[1].t = "json"

json_loads(text) == RemoveTok(text, "ws")[1].v

\* generate_questions_by_difficulty that catches decode errors only: what the
\* invocation raises reaches the caller, shown as a value that is no dict
generate_questions_by_difficulty_DecodeOnly(outcome) ==
    IF outcome.raises THEN [type |-> "uncaught"]
    ELSE LET cleaned_response == clean_json_response(outcome.text)
         IN IF JsonDecodes(cleaned_response)
            THEN json_loads(cleaned_response)
            ELSE None

\* generate_questions_by_difficulty that answers a failed call with an empty
\* dictionary
generate_questions_by_difficulty_EmptyDict(outcome) ==
    IF outcome.raises THEN PyDict(<<>>)
    ELSE LET cleaned_response == clean_json_response(outcome.text)
         IN IF JsonDecodes(cleaned_response)
            THEN json_loads(cleaned_response)
            ELSE PyDict(<<>>)

\* generate_questions_by_difficulty: the outcome of the chain invocation is
\* either an exception or the raw text; every exception gives None
generate_questions_by_difficulty(outcome) ==
    IF outcome.raises THEN None
    ELSE LET cleaned_response == clean_json_response(outcome.text)
         IN IF JsonDecodes(cleaned_response)
            THEN json_loads(cleaned_response)
            ELSE None

----------------------------------------------------------------------------
(* int(key) and sorted(keys, key=int): a key is a sequence of characters   *)

Digits == <<"0", "1", "2", "3", "4", "5", "6", "7", "8", "9">>

IsDigit(ch) == \E i \in 1..Len(Digits) : Digits[i] = ch

DigitVal(ch) == (CHOOSE i \in 1..Len(Digits) : Digits[i] = ch) - 1

\* int(x) raises ValueError unless x is a non-empty digit string
IntParses(key) == Len(key) > 0 /\ \A i \in 1..Len(key) : IsDigit(key[i])

RECURSIVE IntOf(_)
IntOf(key) ==
    IF Len(key) = 0 THEN 0
    ELSE 10 * IntOf(SubSeq(key, 1, Len(key) - 1)) + DigitVal(key[Len(key)])

\* KeyLess that compares the keys as strings, character by character
RECURSIVE KeyLess_Lexical(_, _)
KeyLess_Lexical(a, b) ==
    IF b = <<>> THEN FALSE
    ELSE IF a = <<>> THEN TRUE
    ELSE IF Head(a) # Head(b) THEN DigitVal(Head(a)) < DigitVal(Head(b))
    ELSE KeyLess_Lexical(Tail(a), Tail(b))

\* the order of sorted(..., key=lambda x: int(x))
KeyLess(a, b) == IntOf(a) < IntOf(b)

\* insert an item into a list ordered by int(k), after the items that are
\* not greater (sorted is stable)
RECURSIVE InsertByInt(_, _)
InsertByInt(sortedItems, item) ==
    IF sortedItems = <<>> THEN <<item>>
    ELSE IF KeyLess(item.k, Head(sortedItems).k)
         THEN <<item>> \o sortedItems
         ELSE <<Head(sortedItems)>> \o InsertByInt(Tail(sortedItems), item)

RECURSIVE SortedByInt(_)
SortedByInt(items) ==
    IF items = <<>> THEN <<>>
    ELSE InsertByInt(SortedByInt(SubSeq(items, 1, Len(items) - 1)),
                     items[Len(items)])

----------------------------------------------------------------------------
(* generate_quiz: one tier's loop over the parsed response *)

IsNone(v) == "type" \in DOMAIN v /\ v.type = "None"

\* the fields the loop body reads from an entry
EntryFields == {"question", "options", "correct"}

\* the exception the loop header or body raises on this response, "" if none:
\* .keys() needs a dict, int(x) needs digits, question_data[...] needs the key
TierRaises(questions_dict) ==
    IF questions_dict.type # "dict" THEN "AttributeError"
    ELSE IF \E i \in 1..Len(questions_dict.items) :
                ~IntParses(questions_dict.items[i].k) THEN "ValueError"
    ELSE IF \E i \in 1..Len(questions_dict.items) :
                ~(EntryFields \subseteq DOMAIN questions_dict.items[i].v)
         THEN "KeyError"
    ELSE ""

question_obj(all_questions, question_data, difficulty) ==
    [question_number |-> Len(all_questions) + 1,
     question |-> question_data["question"],
     options |-> question_data["options"],
     correct |-> question_data["correct"],
     difficulty |-> difficulty]

\* the for loop: append one question object per entry, in the given order
RECURSIVE AppendAll(_, _, _)
AppendAll(all_questions, items, difficulty) ==
    IF items = <<>> THEN all_questions
    ELSE AppendAll(Append(all_questions,
                          question_obj(all_questions, Head(items).v, difficulty)),
                   Tail(items), difficulty)

\* for key in sorted(questions.keys(), key=lambda x: int(x)): ... append
AppendTier(all_questions, questions_dict, difficulty) ==
    AppendAll(all_questions, SortedByInt(questions_dict.items), difficulty)

\* the dictionaries generate_quiz returns
TierFailure(t) ==
    [success |-> FALSE,
     message |-> Msg("Failed to generate {} questions. Please try again.",
                     <<TierLower(t)>>),
     questions |-> <<>>]

\* CountFailure that hands out the questions collected
CountFailure_KeepsQuestions(all_questions) ==
    [success |-> FALSE,
     message |-> Msg("Expected 10 questions but got {}. Please try again.",
                     <<Len(all_questions)>>),
     questions |-> all_questions]

CountFailure(all_questions) ==
    [success |-> FALSE,
     message |-> Msg("Expected 10 questions but got {}. Please try again.",
                     <<Len(all_questions)>>),
     questions |-> <<>>]

QuizSuccess(all_questions, topic) ==
    [success |-> TRUE,
     message |-> Msg("Quiz generated successfully", <<>>),
     questions |-> all_questions,
     topic |-> topic]

EmptyTopicFailure ==
    [success |-> FALSE,
     message |-> Msg("Please provide a topic for the quiz", <<>>),
     questions |-> <<>>]

\* FinalResult without the count check
FinalResult_NoCountCheck(all_questions, topic) == QuizSuccess(all_questions, topic)

\* STEP 4 of generate_quiz: the final count check and the return value
FinalResult(all_questions, topic) ==
    IF Len(all_questions) # QUIZ_SIZE
    THEN CountFailure(all_questions)
    ELSE QuizSuccess(all_questions, topic)

----------------------------------------------------------------------------
(* The responses the generation service is taken to give *)

Labels == {"a", "b", "c", "d"}

OptionsOver(ls) == [l \in ls |-> "text"]

KeyStr(i) ==
    IF i < 10 THEN <<Digits[i + 1]>>
    ELSE <<Digits[(i \div 10) + 1], Digits[(i % 10) + 1]>>

\* an entry of a response; the question text names the entry's key
Payload(kind, key) ==
    CASE kind = "ok_a" ->
            [question |-> key, options |-> OptionsOver(Labels),
             correct |-> "a", difficulty |-> "ANY"]
      [] kind = "ok_B" ->
            [question |-> key, options |-> OptionsOver(Labels),
             correct |-> "B", difficulty |-> "ANY"]
      [] kind = "three_options_e" ->
            [question |-> key, options |-> OptionsOver({"a", "b", "c"}),
             correct |-> "e", difficulty |-> "ANY"]
      [] kind = "no_question" ->
            [options |-> OptionsOver(Labels), correct |-> "a"]
      [] kind = "no_options" ->
            [question |-> key, correct |-> "a"]
      [] kind = "no_correct" ->
            [question |-> key, options |-> OptionsOver(Labels)]

DeviantKinds == {"three_options_e"}
BrokenKinds == {"no_question", "no_options", "no_correct"}

\* m entries of one kind with keys "1".."m", ascending or descending
Items(m, kind, order) ==
    [i \in 1..m |->
        LET n == IF order = "asc" THEN i ELSE m + 1 - i
        IN [k |-> KeyStr(n), v |-> Payload(kind, KeyStr(n))]]

\* the entry counts around the requested count n
Counts(n) == {m \in (n - MaxSkew)..(n + MaxSkew) : m >= 0}

\* the requested count and one entry fewer
ShortCounts(n) == {n - 1, n}

DictValues(counts, kinds, orders) ==
    {PyDict(Items(m, kind, order)) :
        m \in counts, kind \in kinds, order \in orders}

\* two entries whose keys are listed in the order of their strings, "10"
\* before "2"
TwoDigitKeys ==
    PyDict(<<[k |-> KeyStr(10), v |-> Payload("ok_a", KeyStr(10))],
             [k |-> KeyStr(2), v |-> Payload("ok_a", KeyStr(2))]>>)

\* an object with a key that is not a number
BadKeyValue == PyDict(<<[k |-> <<"x">>, v |-> Payload("ok_a", <<"x">>)]>>)

Plain(v) == <<JsonTok(v)>>
Fenced(v) == <<Tok("fence_json"), Tok("ws"), JsonTok(v), Tok("ws"), Tok("fence")>>
Chatty(v) == <<Tok("prose"), Tok("ws"), JsonTok(v)>>

Raised == [raises |-> TRUE, text |-> <<>>]
Text(raw) == [raises |-> FALSE, text |-> raw]

\* what one invocation of the chain may do: raise, or return a text. Entries
\* of the given kinds come in every given count; texts with the requested
\* count n also come in descending key order, fenced, with prose around them,
\* and with entries that lack a field
ServiceOutcomes(n, counts, kinds) ==
    {Raised, Text(<<>>), Text(<<Tok("prose")>>)}
    \cup {Text(Plain(v)) : v \in {None, PyList, BadKeyValue}}
    \cup {Text(Plain(v)) : v \in DictValues(counts, kinds, {"asc"})}
    \cup {Text(Plain(v)) : v \in DictValues({n}, kinds, {"desc"})}
    \cup {Text(Plain(v)) : v \in DictValues({n}, BrokenKinds, {"asc"})}
    \cup {Text(Fenced(v)) : v \in DictValues({n}, kinds, {"asc"})}
    \cup {Text(Chatty(v)) : v \in DictValues({n}, kinds, {"asc"})}

\* what generate_questions_by_difficulty and the loop make of an outcome
ResponseClass(outcome) ==
    IF outcome.raises THEN "exception"
    ELSE IF ~JsonDecodes(clean_json_response(outcome.text)) THEN "undecodable"
    ELSE LET v == json_loads(clean_json_response(outcome.text)) IN
         IF IsNone(v) THEN "null"
         ELSE IF TierRaises(v) = "AttributeError" THEN "not_object"
         ELSE IF TierRaises(v) = "ValueError" THEN "bad_key"
         ELSE IF TierRaises(v) = "KeyError" THEN "missing_field"
         ELSE "object"

\* the number of entries of a response that the loop appends, 0 for others
Entries(outcome) ==
    IF ResponseClass(outcome) = "object"
    THEN Len(json_loads(clean_json_response(outcome.text)).items)
    ELSE 0

\* one call generate_questions_by_difficulty(topic, number, difficulty)
CallOf(topic, difficulty, outcome) ==
    [topic |-> topic, number |-> Requested(difficulty), difficulty |-> difficulty,
     response |-> ResponseClass(outcome), entries |-> Entries(outcome)]

----------------------------------------------------------------------------
(* Requests and responses *)

\* a topic is a sequence of characters
GenTopics == {<<>>, <<" ">>, <<"o">>, <<" ", "s", " ">>}

\* request.get_json() of a generate request: None or a dict
GenBodies(topics) == {None, <<>>} \cup {[topic |-> t] : t \in topics}

\* a JSON null among the answers (a value without .lower())
JsonNull == "<null>"

\* k answers x followed by n - k answers y
Pattern(n, k, x, y) == [i \in 1..n |-> IF i <= k THEN x ELSE y]

AnswerLists ==
    {Pattern(QUIZ_SIZE, k, "A", "b") : k \in 0..QUIZ_SIZE}
    \cup {Pattern(n, n, "a", "a") : n \in {0, QUIZ_SIZE - 1, QUIZ_SIZE + 1}}
    \cup {Pattern(QUIZ_SIZE, 1, JsonNull, "a")}

SubmitTopics == {<<"r">>}

\* the answer lists that are also sent together with a topic
TopicAnswerLists ==
    {Pattern(QUIZ_SIZE, k, "A", "b") : k \in {EASY_COUNT, QUIZ_SIZE}}
    \cup {Pattern(QUIZ_SIZE - 1, 0, "a", "a")}

\* request.get_json() of a submit request
SubmitBodies ==
    {None, <<>>}
    \cup {[answers |-> a] : a \in AnswerLists}
    \cup {[answers |-> a, topic |-> t] : a \in TopicAnswerLists, t \in SubmitTopics}

Json(op, status, body) ==
    [op |-> op, status |-> status, from |-> "handler", body |-> body]

\* jsonify(result) of api_generate_game, result being generate_quiz's return
QuizJson(status, result) ==
    [op |-> "generate", status |-> status, from |-> "generate_quiz",
     body |-> result]

\* the handler raised: Flask answers 500 without the handler's own body, by
\* internal_error or, run with debug=True, by the debugger's traceback page
Unhandled(op, exception) ==
    [op |-> op, status |-> 500, from |-> "raised",
     body |-> [exception |-> exception,
               answered_by |-> {"internal_error", "debugger"}]]

Fail(text) == [success |-> FALSE, message |-> Msg(text, <<>>)]

NoResponse == [op |-> "none", status |-> 0, from |-> "handler", body |-> <<>>]
Pending(op) == [op |-> op, status |-> 0, from |-> "pending", body |-> <<>>]

\* no call of create_game_history, and a call with its arguments and outcome
NoCall == [called |-> FALSE]
Call(user_id, topic, score, result, ok) ==
    [called |-> TRUE, user_id |-> user_id, topic |-> topic, score |-> score,
     result |-> result, ok |-> ok]

\* no composition running; calls are those the client's last request made,
\* cookie is the session that request was sent with
Idle(calls, cookie) == [pc |-> "idle", topic |-> <<>>, all_questions |-> <<>>,
                        calls |-> calls, cookie |-> cookie]

\* the composition g has returned
Finished(g, calls) == Idle(calls, g.cookie)

\* SetCookie that hands the session to every browser, as one store kept for
\* all of them would
SetCookie_Everywhere(sessions, b, s) == [x \in DOMAIN sessions |-> s]

\* the response hands the request's session s to the browser b that sent the
\* request, whose cookie then holds s and nothing else
SetCookie(sessions, b, s) == [sessions EXCEPT ![b] = s]

\* StoreQuiz that keeps a quiz the session already holds
StoreQuiz_KeepFirst(s, topic, questions) ==
    IF Has(s, "current_questions") THEN s
    ELSE Put(Put(s, "current_topic", topic), "current_questions", questions)

\* StoreQuiz that stores the questions and leaves the topic as it is
StoreQuiz_QuestionsOnly(s, topic, questions) ==
    Put(s, "current_questions", questions)

\* session["current_topic"] = topic; session["current_questions"] = questions
StoreQuiz(s, topic, questions) ==
    Put(Put(s, "current_topic", topic), "current_questions", questions)

\* "user_id" in session and session["user_id"] is not None
is_logged_in(s) == Has(s, "user_id") /\ s["user_id"] \in Users

\* get_current_user_id that answers with the same user for every session
get_current_user_id_Fixed(s) == CHOOSE u \in Users : \A v \in Users : u <= v

\* session.get("user_id", None) of a logged-in session
get_current_user_id(s) == s["user_id"]

----------------------------------------------------------------------------
(* State machine *)

Init ==
    /\ session = [b \in Browsers |-> <<>>]
    /\ gen = [c \in Clients |-> Idle(<<>>, <<>>)]
    /\ resp = [c \in Clients |-> NoResponse]
    /\ req = [c \in Clients |-> <<>>]
    /\ history = <<>>
    /\ stats = [u \in Users |-> [games_played |-> 0, games_won |-> 0]]
    /\ db_call = [c \in Clients |-> NoCall]
    /\ users = [u \in Users |-> u]

\* request.get_json() of a login request; a user's name and password are
\* written as the user's id, a missing key is an empty string
LoginBodies ==
    {None, <<>>}
    \cup {[username |-> u] : u \in Users}
    \cup {[username |-> u, password |-> u] : u \in Users}

\* api_login; found is whether verify_user_login finds a row for the
\* credentials
api_login(c, data, found) ==
    /\ UNCHANGED users
    /\ gen[c].pc = "idle"
    /\ req' = [req EXCEPT ![c] = data]
    /\ gen' = [gen EXCEPT ![c] = Idle(<<>>, session[BrowserOf(c)])]
    /\ UNCHANGED <<history, stats>>
    /\ db_call' = [db_call EXCEPT ![c] = NoCall]
    /\ IF IsNone(data)
       THEN /\ session' = session
            /\ resp' = [resp EXCEPT ![c] = Json("login", 400, Fail("No data received"))]
       ELSE IF ~Has(data, "username")
       THEN /\ session' = session
            /\ resp' = [resp EXCEPT ![c] = Json("login", 400, Fail("Username is required"))]
       ELSE IF ~Has(data, "password")
       THEN /\ session' = session
            /\ resp' = [resp EXCEPT ![c] = Json("login", 400, Fail("Password is required"))]
       ELSE IF found
       THEN /\ session' =
                    SetCookie(session, BrowserOf(c),
                              Put(Put(session[BrowserOf(c)],
                                      "user_id", data["username"]),
                                  "username", data["username"]))
            /\ resp' = [resp EXCEPT ![c] =
                    Json("login", 200, [success |-> TRUE,
                                        message |-> Msg("Login successful", <<>>)])]
       ELSE /\ session' = session
            /\ resp' = [resp EXCEPT ![c] =
                    Json("login", 401, Fail("Invalid username or password"))]

\* api_logout
api_logout(c) ==
    /\ UNCHANGED users
    /\ gen[c].pc = "idle"
    /\ req' = [req EXCEPT ![c] = <<>>]
    /\ session' = SetCookie(session, BrowserOf(c),
                Clear(Pop(Pop(session[BrowserOf(c)], "user_id"), "username")))
    /\ resp' = [resp EXCEPT ![c] =
            Json("logout", 200, [success |-> TRUE,
                                 message |-> Msg("Logged out successfully", <<>>)])]
    /\ gen' = [gen EXCEPT ![c] = Idle(<<>>, session[BrowserOf(c)])]
    /\ UNCHANGED <<history, stats>>
    /\ db_call' = [db_call EXCEPT ![c] = NoCall]

\* api_generate_game up to the first call of the generation service
api_generate_game(c, data) ==
    /\ UNCHANGED users
    /\ gen[c].pc = "idle"
    /\ req' = [req EXCEPT ![c] = data]
    /\ UNCHANGED <<session, history, stats>>
    /\ db_call' = [db_call EXCEPT ![c] = NoCall]
    /\ IF ~is_logged_in(session[BrowserOf(c)])
       THEN /\ resp' = [resp EXCEPT ![c] = Json("generate", 401, Fail("Not logged in"))]
            /\ gen' = [gen EXCEPT ![c] = Idle(<<>>, session[BrowserOf(c)])]
       ELSE IF IsNone(data)
       THEN /\ resp' = [resp EXCEPT ![c] = Json("generate", 400, Fail("No data received"))]
            /\ gen' = [gen EXCEPT ![c] = Idle(<<>>, session[BrowserOf(c)])]
       ELSE LET topic == Get(data, "topic", <<>>) IN
            IF topic = <<>> \/ Strip(topic) = <<>>
            THEN /\ resp' = [resp EXCEPT ![c] =
                        Json("generate", 400, Fail("Topic is required"))]
                 /\ gen' = [gen EXCEPT ![c] = Idle(<<>>, session[BrowserOf(c)])]
            ELSE \* generate_quiz(topic.strip())
                 LET arg == Strip(topic) IN
                 IF arg = <<>> \/ Strip(arg) = <<>>
                 THEN /\ resp' = [resp EXCEPT ![c] = QuizJson(500, EmptyTopicFailure)]
                      /\ gen' = [gen EXCEPT ![c] = Idle(<<>>, session[BrowserOf(c)])]
                 ELSE /\ resp' = [resp EXCEPT ![c] = Pending("generate")]
                      /\ gen' = [gen EXCEPT ![c] =
                                    [pc |-> "EASY", topic |-> Strip(arg),
                                     all_questions |-> <<>>, calls |-> <<>>,
                                     cookie |-> session[BrowserOf(c)]]]

\* Succeeded that holds of every result
Succeeded_Always(result) == TRUE

\* if result["success"]
Succeeded(result) == result.success

\* one tier of generate_quiz: the call of generate_questions_by_difficulty
\* with the service's outcome, the None check and the loop; after the HARD
\* tier also the final count check. When generate_quiz returns, the rest of
\* api_generate_game: a successful result is stored in the session of the
\* request and answered with 200, any other with 500
generate_tier(c, outcome) ==
    /\ UNCHANGED users
    /\ gen[c].pc \in {"EASY", "MEDIUM", "HARD"}
    /\ UNCHANGED <<req, history, stats>>
    /\ db_call' = [db_call EXCEPT ![c] = NoCall]
    /\ LET difficulty == gen[c].pc
           topic == gen[c].topic
           calls == Append(gen[c].calls, CallOf(topic, difficulty, outcome))
           questions_dict == generate_questions_by_difficulty(outcome)
           Return(result) ==
                /\ gen' = [gen EXCEPT ![c] = Finished(gen[c], calls)]
                /\ IF Succeeded(result)
                   THEN /\ session' =
                                SetCookie(session, BrowserOf(c),
                                          StoreQuiz(gen[c].cookie, topic,
                                                    result.questions))
                        /\ resp' = [resp EXCEPT ![c] = QuizJson(200, result)]
                   ELSE /\ session' = session
                        /\ resp' = [resp EXCEPT ![c] = QuizJson(500, result)]
       IN
       IF IsNone(questions_dict)
       THEN Return(TierFailure(difficulty))
       ELSE IF TierRaises(questions_dict) # ""
       THEN /\ resp' = [resp EXCEPT ![c] =
                    Unhandled("generate", TierRaises(questions_dict))]
            /\ gen' = [gen EXCEPT ![c] = Finished(gen[c], calls)]
            /\ session' = session
       ELSE LET all_questions ==
                    AppendTier(gen[c].all_questions, questions_dict, difficulty)
            IN
            IF difficulty # "HARD"
            THEN /\ gen' = [gen EXCEPT ![c] =
                        [pc |-> NextTier(difficulty), topic |-> topic,
                         all_questions |-> all_questions, calls |-> calls,
                         cookie |-> gen[c].cookie]]
                 /\ UNCHANGED <<resp, session>>
            ELSE Return(FinalResult(all_questions, topic))

----------------------------------------------------------------------------
(* Scoring: the loop of api_submit_game *)

\* .lower() of a submitted answer raises unless the answer is a string
AnswersRaise(user_answers) ==
    IF \E i \in 1..Len(user_answers) : user_answers[i] = JsonNull
    THEN "AttributeError" ELSE ""

\* AnswerAt without the lowercasing
AnswerAt_NoLower(user_answers, i) ==
    IF i <= Len(user_answers) THEN user_answers[i] ELSE ""

\* user_answers[i].lower() if i < len(user_answers) else ""  (i from 1 here)
AnswerAt(user_answers, i) ==
    IF i <= Len(user_answers) THEN Lower(user_answers[i]) ELSE ""

correct_answer(question) == Lower(question["correct"])

is_correct(user_answer, question) == user_answer = correct_answer(question)

\* score after the questions 1..n have been looked at
RECURSIVE ScoreUpTo(_, _, _)
ScoreUpTo(questions, user_answers, n) ==
    IF n = 0 THEN 0
    ELSE ScoreUpTo(questions, user_answers, n - 1)
         + (IF is_correct(AnswerAt(user_answers, n), questions[n]) THEN 1 ELSE 0)

Score(questions, user_answers) == ScoreUpTo(questions, user_answers, Len(questions))

\* detailed_results that numbers the entries from 0
detailed_results_FromZero(questions, user_answers) ==
    [i \in 1..Len(questions) |->
        [question_number |-> i - 1,
         user_answer |-> AnswerAt(user_answers, i),
         correct_answer |-> correct_answer(questions[i]),
         is_correct |-> is_correct(AnswerAt(user_answers, i), questions[i]),
         question |-> questions[i]["question"],
         difficulty |-> questions[i]["difficulty"]]]

\* the list the loop appends to: entry i (from 1 here) has question_number i
detailed_results(questions, user_answers) ==
    [i \in 1..Len(questions) |->
        [question_number |-> i,
         user_answer |-> AnswerAt(user_answers, i),
         correct_answer |-> correct_answer(questions[i]),
         is_correct |-> is_correct(AnswerAt(user_answers, i), questions[i]),
         question |-> questions[i]["question"],
         difficulty |-> questions[i]["difficulty"]]]

\* Outcome with the threshold off by one
Outcome_Above(score) == IF score > WIN_SCORE THEN "WON" ELSE "LOST"

\* result = "WON" if score >= 7 else "LOST"
Outcome(score) == IF score >= WIN_SCORE THEN "WON" ELSE "LOST"

UnknownTopic == <<"Unknown Topic">>

\* create_game_history: the row and both counters change in one commit
\* the row keeps the columns later statements select on; topic and score
\* are written once and shown on db_call; history holds the rows in the order
\* of their history_id, and present tells whether the row is still in the
\* table
HistoryRow(user_id, topic, score, result) ==
    [user_id |-> user_id, result |-> result, present |-> TRUE]

\* StatsAfterGame that counts every game as won
StatsAfterGame_AlwaysWon(st, user_id, result) ==
    [st EXCEPT ![user_id] =
        [games_played |-> @.games_played + 1, games_won |-> @.games_won + 1]]

StatsAfterGame(st, user_id, result) ==
    [st EXCEPT ![user_id] =
        [games_played |-> @.games_played + 1,
         games_won |-> IF result = "WON" THEN @.games_won + 1 ELSE @.games_won]]

\* SavedTopic that prefers the topic stored in the session
SavedTopic_StoredFirst(topic, s) ==
    IF Has(s, "current_topic") THEN s["current_topic"]
    ELSE IF topic = <<>> THEN UnknownTopic ELSE topic

\* if not topic: topic = session.get("current_topic", "Unknown Topic")
SavedTopic(topic, s) ==
    IF topic = <<>> THEN Get(s, "current_topic", UnknownTopic) ELSE topic

\* NoActiveQuiz that lets every submit through
NoActiveQuiz_Never(questions) == FALSE

\* if not questions
NoActiveQuiz(questions) == questions = <<>>

\* CountMismatch that only sees missing answers
CountMismatch_OnlyFewer(user_answers, questions) == Len(user_answers) < Len(questions)

\* if len(user_answers) != len(questions)
CountMismatch(user_answers, questions) == Len(user_answers) # Len(questions)

\* the body of api_submit_game, run on the session s that its request was sent
\* with; db_ok is whether the database accepts the transaction of
\* create_game_history
SubmitOn(c, data, s, db_ok) ==
    /\ UNCHANGED users
    /\ req' = [req EXCEPT ![c] = data]
    /\ gen' = [gen EXCEPT ![c] = Idle(<<>>, s)]
    /\ IF ~is_logged_in(s)
       THEN /\ resp' = [resp EXCEPT ![c] = Json("submit", 401, Fail("Not logged in"))]
            /\ UNCHANGED <<session, history, stats>>
            /\ db_call' = [db_call EXCEPT ![c] = NoCall]
       ELSE IF IsNone(data)
       THEN /\ resp' = [resp EXCEPT ![c] = Json("submit", 400, Fail("No data received"))]
            /\ UNCHANGED <<session, history, stats>>
            /\ db_call' = [db_call EXCEPT ![c] = NoCall]
       ELSE
       LET user_answers == Get(data, "answers", <<>>)
           topic == Get(data, "topic", <<>>)
           questions == Get(s, "current_questions", <<>>)
       IN
       IF NoActiveQuiz(questions)
       THEN /\ resp' = [resp EXCEPT ![c] =
                    Json("submit", 400, Fail("No active quiz found"))]
            /\ UNCHANGED <<session, history, stats>>
            /\ db_call' = [db_call EXCEPT ![c] = NoCall]
       ELSE IF CountMismatch(user_answers, questions)
       THEN /\ resp' = [resp EXCEPT ![c] =
                    Json("submit", 400,
                         [success |-> FALSE,
                          message |-> Msg("Expected {} answers but received {}",
                                          <<Len(questions), Len(user_answers)>>)])]
            /\ UNCHANGED <<session, history, stats>>
            /\ db_call' = [db_call EXCEPT ![c] = NoCall]
       ELSE IF AnswersRaise(user_answers) # ""
       THEN /\ resp' = [resp EXCEPT ![c] =
                    Unhandled("submit", AnswersRaise(user_answers))]
            /\ UNCHANGED <<session, history, stats>>
            /\ db_call' = [db_call EXCEPT ![c] = NoCall]
       ELSE
       LET score == Score(questions, user_answers)
           result == Outcome(score)
           user_id == get_current_user_id(s)
           saved_topic == SavedTopic(topic, s)
       IN
       /\ db_call' = [db_call EXCEPT ![c] = Call(user_id, saved_topic, score, result, db_ok)]
       /\ IF db_ok
          THEN /\ history' = Append(history,
                                    HistoryRow(user_id, saved_topic, score, result))
               /\ stats' = StatsAfterGame(stats, user_id, result)
          ELSE UNCHANGED <<history, stats>>
       /\ session' =
                SetCookie(session, BrowserOf(c),
                          Pop(Pop(s, "current_questions"),
                              "current_topic"))
       /\ resp' = [resp EXCEPT ![c] =
                Json("submit", 200,
                     [success |-> TRUE,
                      score |-> score,
                      total |-> 10,
                      result |-> result,
                      topic |-> saved_topic,
                      detailed_results |-> detailed_results(questions, user_answers),
                      saved |-> db_ok])]

\* api_submit_game, sent and answered in one step
api_submit_game(c, data, db_ok) ==
    /\ gen[c].pc = "idle"
    /\ SubmitOn(c, data, session[BrowserOf(c)], db_ok)

\* a submit request leaves the browser with the cookie the browser holds
send_submit(c, data) ==
    /\ UNCHANGED users
    /\ gen[c].pc = "idle"
    /\ req' = [req EXCEPT ![c] = data]
    /\ gen' = [gen EXCEPT ![c] =
            [pc |-> "submit", topic |-> <<>>, all_questions |-> <<>>,
             calls |-> <<>>, cookie |-> session[BrowserOf(c)]]]
    /\ resp' = [resp EXCEPT ![c] = Pending("submit")]
    /\ db_call' = [db_call EXCEPT ![c] = NoCall]
    /\ UNCHANGED <<session, history, stats>>

\* api_submit_game runs for a request sent earlier, on the session of that
\* request
answer_submit(c, db_ok) ==
    /\ gen[c].pc = "submit"
    /\ SubmitOn(c, req[c], gen[c].cookie, db_ok)

\* the WHERE clause of delete_game_history_entry without the user_id test
Deletable_AnyUser(h, history_id, user_id) ==
    /\ history_id \in 1..Len(h)
    /\ h[history_id].present

\* the WHERE clause of delete_game_history_entry: the row exists and belongs
\* to the user
Deletable(h, history_id, user_id) ==
    /\ history_id \in 1..Len(h)
    /\ h[history_id].present
    /\ h[history_id].user_id = user_id

\* the table after DELETE FROM game_history WHERE history_id .. AND user_id ..
delete_game_history_entry(h, history_id, user_id) ==
    IF Deletable(h, history_id, user_id)
    THEN [h EXCEPT ![history_id].present = FALSE]
    ELSE h

\* api_delete_history; db_ok is whether the database can be reached
api_delete_history(c, history_id, db_ok) ==
    /\ UNCHANGED users
    /\ gen[c].pc = "idle"
    /\ req' = [req EXCEPT ![c] = [history_id |-> history_id]]
    /\ gen' = [gen EXCEPT ![c] = Idle(<<>>, session[BrowserOf(c)])]
    /\ db_call' = [db_call EXCEPT ![c] = NoCall]
    /\ UNCHANGED <<session, stats>>
    /\ IF ~is_logged_in(session[BrowserOf(c)])
       THEN /\ resp' = [resp EXCEPT ![c] = Json("delete", 401, Fail("Not logged in"))]
            /\ UNCHANGED history
       ELSE IF ~db_ok
       THEN /\ resp' = [resp EXCEPT ![c] =
                    Json("delete", 404, Fail("Database connection failed"))]
            /\ UNCHANGED history
       ELSE LET user_id == get_current_user_id(session[BrowserOf(c)])
            IN /\ history' = delete_game_history_entry(history, history_id, user_id)
               /\ resp' = [resp EXCEPT ![c] =
                    IF Deletable(history, history_id, user_id)
                    THEN Json("delete", 200,
                              [success |-> TRUE,
                               message |-> Msg("History entry deleted successfully", <<>>)])
                    ELSE Json("delete", 404, Fail("History entry not found"))]

\* the usernames a signup or a rename may ask for: those of the two users and
\* a new one
Usernames == Users \cup {3}

\* the SELECT of create_user that never finds a row
Taken_Never(rows, username) == FALSE

\* the SELECT of create_user finds a row with the username
Taken(rows, username) == \E i \in 1..Len(rows) : rows[i] = username

\* the SELECT of update_username finds a row of another user with the username
TakenByOther(rows, username, user_id) ==
    \E i \in 1..Len(rows) : rows[i] = username /\ i # user_id

\* the unique key on users.username of the schema: the table takes the
\* username for the row user_id (0 for a new row) if no other row holds it
UniqueKey(rows, username, user_id) ==
    \A i \in 1..Len(rows) : i # user_id => rows[i] # username

\* the return value of a database function
DbResult(op, success, text) ==
    [op |-> op, status |-> 0, from |-> "database",
     body |-> [success |-> success, message |-> Msg(text, <<>>)]]

\* a call of a database function is between its SELECT and its write
Writing(c, op) ==
    [gen EXCEPT ![c] =
        [pc |-> op, topic |-> <<>>, all_questions |-> <<>>, calls |-> <<>>,
         cookie |-> session[BrowserOf(c)]]]

\* create_user up to its INSERT; connected is whether get_db_connection
\* returns a connection
create_user(c, username, connected) ==
    /\ gen[c].pc = "idle"
    /\ req' = [req EXCEPT ![c] = [username |-> username]]
    /\ db_call' = [db_call EXCEPT ![c] = NoCall]
    /\ UNCHANGED <<session, history, stats, users>>
    /\ IF ~connected
       THEN /\ resp' = [resp EXCEPT ![c] =
                    DbResult("create_user", FALSE, "Database connection failed")]
            /\ gen' = [gen EXCEPT ![c] = Idle(<<>>, session[BrowserOf(c)])]
       ELSE IF Taken(users, username)
       THEN /\ resp' = [resp EXCEPT ![c] =
                    DbResult("create_user", FALSE, "Username already exists")]
            /\ gen' = [gen EXCEPT ![c] = Idle(<<>>, session[BrowserOf(c)])]
       ELSE /\ resp' = [resp EXCEPT ![c] = Pending("create_user")]
            /\ gen' = Writing(c, "create_user")

\* the INSERT and the commit of create_user
create_user_insert(c) ==
    /\ gen[c].pc = "create_user"
    /\ gen' = [gen EXCEPT ![c] = Finished(gen[c], <<>>)]
    /\ UNCHANGED <<session, history, stats, req, db_call>>
    /\ IF UniqueKey(users, req[c].username, 0)
       THEN /\ users' = Append(users, req[c].username)
            /\ resp' = [resp EXCEPT ![c] =
                    DbResult("create_user", TRUE, "Account created successfully")]
       ELSE /\ users' = users
            /\ resp' = [resp EXCEPT ![c] =
                    DbResult("create_user", FALSE, "Failed to create account")]

\* update_username up to its UPDATE
update_username(c, user_id, new_username, connected) ==
    /\ gen[c].pc = "idle"
    /\ req' = [req EXCEPT ![c] = [user_id |-> user_id, new_username |-> new_username]]
    /\ db_call' = [db_call EXCEPT ![c] = NoCall]
    /\ UNCHANGED <<session, history, stats, users>>
    /\ IF ~connected
       THEN /\ resp' = [resp EXCEPT ![c] =
                    DbResult("update_username", FALSE, "Database connection failed")]
            /\ gen' = [gen EXCEPT ![c] = Idle(<<>>, session[BrowserOf(c)])]
       ELSE IF TakenByOther(users, new_username, user_id)
       THEN /\ resp' = [resp EXCEPT ![c] =
                    DbResult("update_username", FALSE, "Username already taken")]
            /\ gen' = [gen EXCEPT ![c] = Idle(<<>>, session[BrowserOf(c)])]
       ELSE /\ resp' = [resp EXCEPT ![c] = Pending("update_username")]
            /\ gen' = Writing(c, "update_username")

\* the UPDATE and the commit of update_username
update_username_update(c) ==
    /\ gen[c].pc = "update_username"
    /\ gen' = [gen EXCEPT ![c] = Finished(gen[c], <<>>)]
    /\ UNCHANGED <<session, history, stats, req, db_call>>
    /\ IF UniqueKey(users, req[c].new_username, req[c].user_id)
       THEN /\ users' = [users EXCEPT ![req[c].user_id] = req[c].new_username]
            /\ resp' = [resp EXCEPT ![c] =
                    DbResult("update_username", TRUE, "Username updated successfully")]
       ELSE /\ users' = users
            /\ resp' = [resp EXCEPT ![c] =
                    DbResult("update_username", FALSE, "Failed to update username")]

----------------------------------------------------------------------------
(* Specifications *)

\* the database can take another game_history row
HistoryHasRoom == Len(history) < MaxGames

DbAnswers == IF HistoryHasRoom THEN BOOLEAN ELSE {FALSE}

\* the outcomes of the service in the session-level specification: entries
\* with correct label "a" or "B", of the requested count or one fewer
SessionEasy == ServiceOutcomes(EASY_COUNT, ShortCounts(EASY_COUNT), {"ok_a"})
SessionMedium == ServiceOutcomes(MEDIUM_COUNT, ShortCounts(MEDIUM_COUNT), {"ok_B"})
SessionHard == ServiceOutcomes(HARD_COUNT, ShortCounts(HARD_COUNT), {"ok_a", "ok_B"})

SessionOutcomes(t) ==
    CASE t = "EASY" -> SessionEasy
      [] t = "MEDIUM" -> SessionMedium
      [] t = "HARD" -> SessionHard

\* the client of the specifications in which requests follow each other
Solo == {"c1"}

Next ==
    \E c \in Solo :
        \/ \E data \in LoginBodies, found \in BOOLEAN : api_login(c, data, found)
        \/ api_logout(c)
        \/ \E data \in GenBodies(GenTopics) : api_generate_game(c, data)
        \/ /\ gen[c].pc # "idle"
           /\ \E o \in SessionOutcomes(gen[c].pc) : generate_tier(c, o)
        \/ \E data \in SubmitBodies, db_ok \in DbAnswers :
                api_submit_game(c, data, db_ok)

Spec == Init /\ [][Next]_vars

\* the composition under well-formed, deviant and broken entries and under
\* entry counts around the requested ones; the MEDIUM call returns no deviant
\* entries, the HARD call may return the keys "10" and "2"
ComposeKinds == {"ok_a"} \cup DeviantKinds
ComposeTopics == {<<>>, <<" ", "o", " ">>}

ComposeEasy == ServiceOutcomes(EASY_COUNT, Counts(EASY_COUNT), ComposeKinds)
ComposeMedium == ServiceOutcomes(MEDIUM_COUNT, Counts(MEDIUM_COUNT), {"ok_a"})
ComposeHard ==
    ServiceOutcomes(HARD_COUNT, Counts(HARD_COUNT), ComposeKinds)
    \cup {Text(Plain(TwoDigitKeys))}

ComposeOutcomes(t) ==
    CASE t = "EASY" -> ComposeEasy
      [] t = "MEDIUM" -> ComposeMedium
      [] t = "HARD" -> ComposeHard

NextCompose ==
    \E c \in Solo :
        \/ \E data \in LoginBodies : api_login(c, data, TRUE)
        \/ \E data \in GenBodies(ComposeTopics) : api_generate_game(c, data)
        \/ /\ gen[c].pc # "idle"
           /\ \E o \in ComposeOutcomes(gen[c].pc) : generate_tier(c, o)

SpecCompose == Init /\ [][NextCompose]_vars

\* requests of two clients that overlap: the steps of one client's generate
\* request and the requests of the other client come in any order. The
\* service returns the requested entries or raises; the HARD entries carry
\* one of two correct labels, so that two quizzes can differ
PairTopics == {<<"o">>, <<"s">>}

PairOutcomes(t) ==
    CASE t = "EASY" ->
            {Raised, Text(Plain(PyDict(Items(EASY_COUNT, "ok_a", "asc"))))}
      [] t = "MEDIUM" ->
            {Text(Plain(PyDict(Items(MEDIUM_COUNT, "ok_B", "asc"))))}
      [] t = "HARD" ->
            {Text(Plain(PyDict(Items(HARD_COUNT, kind, "asc")))) :
                kind \in {"ok_a", "ok_B"}}

PairLogins == {[username |-> u, password |-> u] : u \in Users}

PairSubmits == {[answers |-> Pattern(QUIZ_SIZE, EASY_COUNT, "A", "b")]}

\* two clients of different browsers: two sessions, each asking for its own
\* topic
Separate == {"c1", "c3"}

SeparateTopic(c) == IF c = "c1" THEN <<"o">> ELSE <<"s">>

NextSeparate ==
    \E c \in Separate :
        \/ \E data \in PairLogins : api_login(c, data, TRUE)
        \/ api_generate_game(c, [topic |-> SeparateTopic(c)])
        \/ /\ gen[c].pc # "idle"
           /\ \E o \in PairOutcomes(gen[c].pc) : generate_tier(c, o)
        \/ \E data \in PairSubmits, db_ok \in DbAnswers :
                api_submit_game(c, data, db_ok)

SpecSeparate == Init /\ [][NextSeparate]_vars

\* two clients of one browser: one session, whose generate requests overlap
Shared == {"c1", "c2"}

NextShared ==
    \E c \in Shared :
        \/ \E data \in PairLogins : api_login(c, data, TRUE)
        \/ \E t \in PairTopics : api_generate_game(c, [topic |-> t])
        \/ /\ gen[c].pc # "idle"
           /\ \E o \in PairOutcomes(gen[c].pc) : generate_tier(c, o)

SpecShared == Init /\ [][NextShared]_vars

\* one session whose submit requests overlap: the session logs in and
\* generates first, and once a submit request has been sent only submit
\* requests follow; each is sent with the cookie the browser holds then and
\* answered later
NoSubmitSent == \A d \in Shared : resp[d].op # "submit"

OverlapHasRoom == Len(history) < MaxOverlap

OverlapDbAnswers == IF OverlapHasRoom THEN BOOLEAN ELSE {FALSE}

OverlapSubmits ==
    {[answers |-> Pattern(QUIZ_SIZE, n, "A", "b")] : n \in {EASY_COUNT, QUIZ_SIZE}}

NextOverlap ==
    \/ /\ NoSubmitSent
       /\ \/ \E data \in PairLogins : api_login("c1", data, TRUE)
          \/ \E t \in PairTopics : api_generate_game("c1", [topic |-> t])
    \/ /\ gen["c1"].pc \notin {"idle", "submit"}
       /\ \E o \in PairOutcomes(gen["c1"].pc) : generate_tier("c1", o)
    \/ \E c \in Shared :
        \/ \E data \in OverlapSubmits : send_submit(c, data)
        \/ \E db_ok \in OverlapDbAnswers : answer_submit(c, db_ok)

SpecOverlap == Init /\ [][NextOverlap]_vars

\* one browser in which both users log in in turn, play and delete history
\* entries; the quiz is always the same, the answers win or lose
HistoryOutcome(t) ==
    Text(Plain(PyDict(Items(Requested(t), IF t = "MEDIUM" THEN "ok_B" ELSE "ok_a", "asc"))))

HistorySubmits ==
    {[answers |-> Pattern(QUIZ_SIZE, n, "A", "b")] : n \in {0, QUIZ_SIZE}}

HistoryIds == 1..(MaxGames + 1)

NextHistory ==
    \E c \in Solo :
        \/ \E data \in PairLogins : api_login(c, data, TRUE)
        \/ api_generate_game(c, [topic |-> <<"o">>])
        \/ /\ gen[c].pc # "idle"
           /\ generate_tier(c, HistoryOutcome(gen[c].pc))
        \/ \E data \in HistorySubmits, db_ok \in DbAnswers :
                api_submit_game(c, data, db_ok)
        \/ \E history_id \in HistoryIds, db_ok \in BOOLEAN :
                api_delete_history(c, history_id, db_ok)

SpecHistory == Init /\ [][NextHistory]_vars

\* two callers of the account functions of database.py; other calls may run
\* between the SELECT and the write of a call
NextAccounts ==
    \E c \in Separate :
        \/ \E username \in Usernames, connected \in BOOLEAN :
                create_user(c, username, connected)
        \/ create_user_insert(c)
        \/ \E user_id \in 1..Len(users), new_username \in Usernames,
              connected \in BOOLEAN :
                update_username(c, user_id, new_username, connected)
        \/ update_username_update(c)

SpecAccounts == Init /\ [][NextAccounts]_vars

----------------------------------------------------------------------------
(* Properties of the composition, checked under SpecCompose *)

Last(seq) == seq[Len(seq)]

\* the last response of client c is a value generate_quiz returned
Returned(c) == resp[c].from = "generate_quiz"

\* ... and that value reports success
Composed(c) == Returned(c) /\ resp[c].body.success

\* C1: every successful result of generate_quiz holds exactly 10 questions,
\* numbered 1, 2, ..., 10 in list order, whatever the service returned.
C1_TenNumberedQuestions ==
    \A c \in Clients :
        Composed(c) =>
            /\ Len(resp[c].body.questions) = 10
            /\ \A i \in 1..Len(resp[c].body.questions) :
                    resp[c].body.questions[i].question_number = i

\* a successful composition whose three calls all returned an object
C1_Witness ==
    \E c \in Clients :
        /\ Composed(c)
        /\ Len(gen[c].calls) = 3
        /\ \A i \in 1..3 : gen[c].calls[i].response = "object"

\* the difficulty of question i in a 5 + 3 + 2 quiz
BlockDifficulty(i) ==
    IF i <= EASY_COUNT THEN "EASY"
    ELSE IF i <= EASY_COUNT + MEDIUM_COUNT THEN "MEDIUM"
    ELSE "HARD"

\* C2: every successful result of generate_quiz is made of 5 EASY questions
\* (numbers 1-5), then 3 MEDIUM (6-8), then 2 HARD (9-10); a tier response
\* with fewer or more entries than requested never yields a success.
C2_TierComposition ==
    \A c \in Clients :
        Composed(c) =>
            \A i \in 1..Len(resp[c].body.questions) :
                resp[c].body.questions[i].difficulty = BlockDifficulty(i)

\* the step is a call of the generation service by client c
Called(c) == Len(gen'[c].calls) = Len(gen[c].calls) + 1

\* C3: when the generation or the parsing of a tier fails, generate_quiz
\* returns a failure with an empty question list; the questions collected from
\* earlier tiers are dropped and nothing is stored.
C3_TierFailureAborts ==
    [][\A c \in Clients :
        (Called(c) /\ Last(gen'[c].calls).response \in {"exception", "undecodable"})
        => /\ resp'[c].from = "generate_quiz"
           /\ ~resp'[c].body.success
           /\ resp'[c].body.questions = <<>>
           /\ gen'[c].pc = "idle"
           /\ gen'[c].all_questions = <<>>
           /\ session'[BrowserOf(c)] = session[BrowserOf(c)]]_vars

\* a composition that failed at its second or third call, after questions of
\* earlier tiers had been collected
C3_Witness ==
    \E c \in Clients :
        /\ Returned(c)
        /\ ~resp[c].body.success
        /\ Len(gen[c].calls) >= 2
        /\ Last(gen[c].calls).response \in {"exception", "undecodable"}

\* C4: a response that parses but has an entry without question, options or
\* correct makes generate_quiz return a failure result (success false, with a
\* message) instead of raising.
C4_StructuredFailure ==
    \A c \in Clients :
        (/\ resp[c].op = "generate"
         /\ gen[c].pc = "idle"
         /\ gen[c].calls # <<>>
         /\ Last(gen[c].calls).response = "missing_field")
        => /\ Returned(c)
           /\ ~resp[c].body.success
           /\ Has(resp[c].body, "message")

WellFormed(question) ==
    /\ DOMAIN question["options"] = Labels
    /\ question["correct"] \in DOMAIN question["options"]

\* C5: every question of a successfully composed quiz, and of every stored
\* quiz, has options labelled exactly a, b, c, d and a correct label that is
\* one of its option labels.
C5_OptionsAndCorrect ==
    \A c \in Clients :
        /\ Composed(c) =>
                \A i \in 1..Len(resp[c].body.questions) :
                    WellFormed(resp[c].body.questions[i])
        /\ Has(session[BrowserOf(c)], "current_questions") =>
                \A i \in 1..Len(session[BrowserOf(c)]["current_questions"]) :
                    WellFormed(session[BrowserOf(c)]["current_questions"][i])

----------------------------------------------------------------------------
(* Properties of submission and scoring, checked under Spec *)

HasQuiz(s) == Has(s, "current_questions")

\* the step is a submit request of client c
Submitted(c) ==
    /\ resp'[c].op = "submit"
    /\ gen[c].pc = "idle"
    /\ <<resp[c], req[c], session[BrowserOf(c)]>>' # <<resp[c], req[c], session[BrowserOf(c)]>>

\* the step is a submit request of client c that was scored
Accepted(c) ==
    /\ Submitted(c)
    /\ resp'[c].from = "handler"
    /\ resp'[c].status = 200

\* nothing was scored or written for client c in this step
NothingScored(c) ==
    /\ ~Has(resp'[c].body, "score")
    /\ db_call'[c] = NoCall
    /\ history' = history
    /\ stats' = stats

\* C6: a submit of a logged-in session that holds no stored quiz is answered by
\* the failure 'No active quiz found'; nothing is scored, create_game_history
\* is not called and the session is left as it was.
C6_NoActiveQuiz ==
    [][\A c \in Clients :
        (Submitted(c) /\ ~HasQuiz(session[BrowserOf(c)]))
        => /\ NothingScored(c)
           /\ session'[BrowserOf(c)] = session[BrowserOf(c)]
           /\ (is_logged_in(session[BrowserOf(c)]) /\ ~IsNone(req'[c]))
                => /\ resp'[c].status = 400
                   /\ resp'[c].body = Fail("No active quiz found")]_vars

\* a logged-in user whose earlier quiz was scored and saved sent ten answers
\* and got the failure
C6_Witness ==
    \E c \in Clients :
        /\ resp[c].op = "submit"
        /\ resp[c].body = Fail("No active quiz found")
        /\ is_logged_in(session[BrowserOf(c)])
        /\ stats[get_current_user_id(session[BrowserOf(c)])].games_played > 0
        /\ Has(req[c], "answers")
        /\ Len(req[c]["answers"]) = QUIZ_SIZE

\* C7: a submit with fewer or more answers than stored questions is answered
\* by a failure naming the expected and the received count; nothing is scored
\* and no history row is written.
C7_CountMismatch ==
    [][\A c \in Clients :
        (/\ Submitted(c)
         /\ is_logged_in(session[BrowserOf(c)])
         /\ ~IsNone(req'[c])
         /\ HasQuiz(session[BrowserOf(c)])
         /\ Len(Get(req'[c], "answers", <<>>)) # Len(session[BrowserOf(c)]["current_questions"]))
        => /\ resp'[c].status = 400
           /\ resp'[c].body.success = FALSE
           /\ resp'[c].body.message =
                Msg("Expected {} answers but received {}",
                    <<Len(session[BrowserOf(c)]["current_questions"]),
                      Len(Get(req'[c], "answers", <<>>))>>)
           /\ NothingScored(c)]_vars

\* eleven answers were sent for ten questions
C7_Witness ==
    \E c \in Clients :
        /\ resp[c].op = "submit"
        /\ resp[c].status = 400
        /\ Has(resp[c].body, "message")
        /\ resp[c].body.message.args = <<QUIZ_SIZE, QUIZ_SIZE + 1>>

\* two labels that differ at most in case
SameLetter(x, y) ==
    \/ x = y
    \/ \E p \in {<<"a", "A">>, <<"b", "B">>, <<"c", "C">>, <<"d", "D">>, <<"e", "E">>} :
            \/ (x = p[1] /\ y = p[2])
            \/ (x = p[2] /\ y = p[1])

Matches(questions, answers) ==
    {i \in 1..Len(questions) : SameLetter(answers[i], questions[i]["correct"])}

\* C8: the score of an accepted submit is the number of positions at which the
\* submitted answer and the stored correct label are the same letter, case
\* ignored; it lies between 0 and 10.
C8_Score ==
    [][\A c \in Clients :
        Accepted(c)
        => /\ resp'[c].body.score =
                Cardinality(Matches(session[BrowserOf(c)]["current_questions"],
                                    req'[c]["answers"]))
           /\ resp'[c].body.score \in 0..10]_vars

\* ten answers that all match, some of them only after lowercasing
C8_Witness ==
    \E c \in Clients :
        /\ resp[c].op = "submit"
        /\ resp[c].status = 200
        /\ resp[c].body.score = 10
        /\ \E i \in 1..Len(req[c]["answers"]) : req[c]["answers"][i] = "A"

\* the last response of client c is that of a scored submit
Scored(c) == resp[c].op = "submit" /\ resp[c].from = "handler" /\ resp[c].status = 200

\* C9: the outcome of an accepted submit is WON exactly when the score is at
\* least 7, LOST otherwise, and create_game_history is given that same outcome.
C9_Outcome ==
    \A c \in Clients :
        Scored(c)
        => /\ resp[c].body.result \in {"WON", "LOST"}
           /\ (resp[c].body.result = "WON") <=> (resp[c].body.score >= 7)
           /\ db_call[c].called
           /\ db_call[c].result = resp[c].body.result

\* a submit scored exactly 7
C9_Witness ==
    \E c \in Clients :
        Scored(c) /\ resp[c].body.score = 7 /\ resp[c].body.result = "WON"

\* a submit scored exactly 6
C9_WitnessLost ==
    \E c \in Clients :
        Scored(c) /\ resp[c].body.score = 6 /\ resp[c].body.result = "LOST"

\* C10: an accepted submit removes current_questions and current_topic from the
\* session; a session without a stored quiz gets one only by a successful
\* generate, and until then every submit fails with 'No active quiz found'.
C10_Consumed ==
    [][\A c \in Clients :
        /\ Accepted(c) =>
                /\ ~Has(session'[BrowserOf(c)], "current_questions")
                /\ ~Has(session'[BrowserOf(c)], "current_topic")
        /\ (~HasQuiz(session[BrowserOf(c)]) /\ HasQuiz(session'[BrowserOf(c)])) =>
                \E d \in Clients :
                    /\ BrowserOf(d) = BrowserOf(c)
                    /\ gen[d].pc = "HARD"
                    /\ resp'[d].from = "generate_quiz"
                    /\ resp'[d].body.success
        /\ (Submitted(c) /\ ~HasQuiz(session[BrowserOf(c)]) /\ resp'[c].status # 401
                /\ ~IsNone(req'[c])) =>
                resp'[c].body.message = Msg("No active quiz found", <<>>)]_vars

\* a submit was scored and the session no longer holds the quiz
C10_Witness ==
    \E c \in Clients :
        /\ Scored(c)
        /\ is_logged_in(session[BrowserOf(c)])
        /\ ~Has(session[BrowserOf(c)], "current_questions")
        /\ ~Has(session[BrowserOf(c)], "current_topic")

----------------------------------------------------------------------------
(* Properties of the stored quiz, checked under Spec *)

\* the correct labels, lowercased, of a question list
Labelling(questions) == [i \in 1..Len(questions) |-> Lower(questions[i]["correct"])]

\* C11: when a generate request succeeds, the session holds exactly the topic
\* and the questions of that request, whatever quiz it held before; a submit
\* that follows is scored against the correct labels of that last quiz.
C11_SingleSlot ==
    [][\A c \in Clients :
        /\ Composed(c)' =>
                /\ session'[BrowserOf(c)]["current_topic"] = resp'[c].body.topic
                /\ session'[BrowserOf(c)]["current_questions"] = resp'[c].body.questions
        /\ (Composed(c) /\ Accepted(c)) =>
                /\ Len(resp'[c].body.detailed_results) = Len(resp[c].body.questions)
                /\ \A i \in 1..Len(resp[c].body.questions) :
                        resp'[c].body.detailed_results[i].correct_answer
                            = Labelling(resp[c].body.questions)[i]
                /\ resp'[c].body.score =
                        Cardinality({i \in 1..Len(resp[c].body.questions) :
                            Lower(req'[c]["answers"][i])
                                = Labelling(resp[c].body.questions)[i]})]_vars

\* a generate request succeeded in a session that held a quiz on another topic
\* with other correct labels
C11_Witness ==
    \E c \in Clients :
        /\ Composed(c)
        /\ Has(gen[c].cookie, "current_questions")
        /\ gen[c].cookie["current_topic"] # resp[c].body.topic
        /\ Labelling(gen[c].cookie["current_questions"])
                # Labelling(resp[c].body.questions)
        /\ session[BrowserOf(c)]["current_topic"] = resp[c].body.topic

\* the last request of client c was a generate request that has ended
\* without a quiz
Failed(c) ==
    /\ resp[c].op = "generate"
    /\ gen[c].pc = "idle"
    /\ ~Composed(c)

\* the step belongs to a generate request of client c
Generating(c) ==
    /\ resp'[c].op = "generate"
    /\ <<resp[c], gen[c]>>' # <<resp[c], gen[c]>>

\* C12: a generate request that ends without success (a tier failed, or the
\* final count was not 10) leaves the session as it was; the quiz stored
\* before it stays and is the one a following submit is scored against.
C12_FailureKeepsQuiz ==
    [][\A c \in Clients :
        /\ (Generating(c) /\ ~Composed(c)') =>
                session'[BrowserOf(c)] = session[BrowserOf(c)]
        /\ (Generating(c) /\ Failed(c)' /\ gen'[c].calls # <<>>) =>
                session'[BrowserOf(c)] = gen'[c].cookie
        /\ (Failed(c) /\ gen[c].calls # <<>> /\ Accepted(c)) =>
                /\ HasQuiz(gen[c].cookie)
                /\ \A i \in 1..Len(resp'[c].body.detailed_results) :
                        resp'[c].body.detailed_results[i].correct_answer
                            = Labelling(gen[c].cookie["current_questions"])[i]
                /\ resp'[c].body.topic \in
                        {gen[c].cookie["current_topic"]} \cup SubmitTopics]_vars

\* a generate request on another topic made three calls and failed on the
\* final count, and the session still holds the earlier quiz
C12_Witness ==
    \E c \in Clients :
        /\ Failed(c)
        /\ Returned(c)
        /\ Len(gen[c].calls) = 3
        /\ HasQuiz(session[BrowserOf(c)])
        /\ session[BrowserOf(c)] = gen[c].cookie
        /\ Strip(req[c]["topic"]) # session[BrowserOf(c)]["current_topic"]

----------------------------------------------------------------------------
(* Properties of the tier calls, checked under SpecCompose *)

\* the responses of which generate_questions_by_difficulty makes None
NoneClasses == {"exception", "undecodable", "null"}

\* the tiers in the order of the calls, and as a message names them
TierOrder == <<"EASY", "MEDIUM", "HARD">>
TierNames == <<"easy", "medium", "hard">>

\* the last call of client c's composition failed
LastCallFailed(c) ==
    /\ resp[c].op = "generate"
    /\ gen[c].pc = "idle"
    /\ gen[c].calls # <<>>
    /\ Last(gen[c].calls).response \in NoneClasses

\* C13: when the call of a tier fails, generate_quiz returns a failure whose
\* message names that tier (easy, medium or hard); the tier named is the first
\* that failed in the order EASY, MEDIUM, HARD.
C13_FailureNamesTier ==
    \A c \in Clients :
        LastCallFailed(c) =>
            LET n == Len(gen[c].calls) IN
            /\ Returned(c)
            /\ ~resp[c].body.success
            /\ Last(gen[c].calls).difficulty = TierOrder[n]
            /\ resp[c].body.message =
                    Msg("Failed to generate {} questions. Please try again.",
                        <<TierNames[n]>>)
            /\ \A i \in 1..(n - 1) : gen[c].calls[i].response \notin NoneClasses

\* the MEDIUM call raised after the EASY call had succeeded, and the failure
\* names medium
C13_Witness ==
    \E c \in Clients :
        /\ LastCallFailed(c)
        /\ Len(gen[c].calls) = 2
        /\ Last(gen[c].calls).response = "exception"
        /\ resp[c].body.message.args = <<"medium">>

\* C14: the calls one composition makes are at most three, the i-th for tier
\* i of EASY, MEDIUM, HARD with that tier's count and the request's topic;
\* every call but the last returned an object that was appended, so a tier is
\* called only after the earlier ones succeeded and a failed call is the last.
C14_CallOrder ==
    \A c \in Clients :
        LET calls == gen[c].calls IN
        /\ Len(calls) <= 3
        /\ \A i \in 1..Len(calls) :
                /\ calls[i].difficulty = TierOrder[i]
                /\ calls[i].number = <<5, 3, 2>>[i]
                /\ calls[i].topic = calls[1].topic
        /\ \A i \in 1..(Len(calls) - 1) : calls[i].response = "object"
        /\ (calls # <<>> /\ Last(calls).response # "object") => gen[c].pc = "idle"
        /\ (gen[c].pc # "idle") => gen[c].pc = TierOrder[Len(calls) + 1]

\* all three tiers were called and the HARD call returned the text null
C14_Witness ==
    \E c \in Clients :
        /\ Len(gen[c].calls) = 3
        /\ gen[c].calls[3].difficulty = "HARD"
        /\ gen[c].calls[3].response = "null"
        /\ gen[c].pc = "idle"

\* C15: a call whose invocation raises, or whose text does not decode, makes
\* generate_questions_by_difficulty return None: generate_quiz goes on to its
\* None check and returns that tier's failure. An exception that leaves a
\* generate request comes from the loop over a decoded response, never from
\* the call.
C15_CallNeverRaises ==
    [][\A c \in Clients :
        Called(c) =>
            LET call == Last(gen'[c].calls) IN
            /\ (call.response \in {"exception", "undecodable"}) =>
                    /\ resp'[c] = QuizJson(500, TierFailure(call.difficulty))
                    /\ resp'[c].from # "raised"
            /\ (resp'[c].from = "raised") =>
                    call.response \in {"not_object", "bad_key", "missing_field"}]_vars

\* the first call raised and the request was answered by generate_quiz's
\* failure result
C15_Witness ==
    \E c \in Clients :
        /\ Returned(c)
        /\ Len(gen[c].calls) = 1
        /\ gen[c].calls[1].response = "exception"
        /\ resp[c].status = 500

\* the questions of one tier stand in increasing order of the numbers their
\* keys spell (an entry's question text is its key), and are numbered 1, 2, ...
InKeyOrder(questions) ==
    /\ \A i, j \in 1..Len(questions) :
            (i < j /\ questions[i].difficulty = questions[j].difficulty)
                => IntOf(questions[i].question) < IntOf(questions[j].question)
    /\ \A i \in 1..Len(questions) : questions[i].question_number = i

\* C16: the questions of each tier are appended in increasing numeric order
\* of their keys ("2" before "10"), whatever the order of the keys in the
\* response, and each gets the next sequence number.
C16_NumericKeyOrder ==
    \A c \in Clients :
        /\ InKeyOrder(gen[c].all_questions)
        /\ Composed(c) => InKeyOrder(resp[c].body.questions)

\* the HARD response listed key "10" before key "2"; question 9 is the entry
\* of key "2" and question 10 that of key "10"
C16_Witness ==
    \E c \in Clients :
        /\ Composed(c)
        /\ resp[c].body.questions[9].question = <<"2">>
        /\ resp[c].body.questions[10].question = <<"1", "0">>
        /\ resp[c].body.questions[10].difficulty = "HARD"

\* the composition of client c's last request made its three calls and each
\* returned an object whose entries were appended
AllTiersSucceeded(c) ==
    /\ resp[c].op = "generate"
    /\ gen[c].pc = "idle"
    /\ Len(gen[c].calls) = 3
    /\ \A i \in 1..3 : gen[c].calls[i].response = "object"

\* the number of entries the three responses held
Obtained(c) ==
    gen[c].calls[1].entries + gen[c].calls[2].entries + gen[c].calls[3].entries

\* C17: when all three calls succeed and the responses together hold a number
\* of entries other than 10, generate_quiz returns a failure with no questions
\* and a message giving that number, and the session stays as the request
\* found it.
C17_CountFailure ==
    \A c \in Clients :
        (AllTiersSucceeded(c) /\ Obtained(c) # 10) =>
            /\ Returned(c)
            /\ resp[c].status = 500
            /\ ~resp[c].body.success
            /\ resp[c].body.questions = <<>>
            /\ resp[c].body.message =
                    Msg("Expected 10 questions but got {}. Please try again.",
                        <<Obtained(c)>>)
            /\ session[BrowserOf(c)] = gen[c].cookie

\* the three responses held eleven entries
C17_Witness ==
    \E c \in Clients :
        /\ AllTiersSucceeded(c)
        /\ Obtained(c) = 11
        /\ resp[c].body.message.args = <<11>>

----------------------------------------------------------------------------
(* The breakdown of a scored submit, checked under Spec *)

\* C18: the breakdown of an accepted submit has one entry per stored question
\* in stored order; the i-th entry (from 1) has question_number i, the text
\* and difficulty of the i-th stored question, the i-th submitted answer and
\* the i-th correct label, both lowercased; as many entries have is_correct
\* true as the score says.
C18_Breakdown ==
    \A c \in Clients :
        Scored(c) =>
            LET questions == gen[c].cookie["current_questions"]
                answers == req[c]["answers"]
                entries == resp[c].body.detailed_results
            IN
            /\ Len(entries) = Len(questions)
            /\ \A i \in 1..Len(questions) :
                    /\ entries[i].question_number = i
                    /\ entries[i].question = questions[i].question
                    /\ entries[i].difficulty = questions[i].difficulty
                    /\ entries[i].user_answer = Lower(answers[i])
                    /\ entries[i].correct_answer = Lower(questions[i].correct)
                    /\ entries[i].is_correct
                            <=> SameLetter(answers[i], questions[i].correct)
            /\ Cardinality({i \in 1..Len(entries) : entries[i].is_correct})
                    = resp[c].body.score

\* a breakdown with right and wrong entries, whose first answer was sent as A
\* and whose MEDIUM labels were stored as B
C18_Witness ==
    \E c \in Clients :
        /\ Scored(c)
        /\ req[c]["answers"][1] = "A"
        /\ resp[c].body.detailed_results[1].user_answer = "a"
        /\ resp[c].body.detailed_results[6].correct_answer = "b"
        /\ resp[c].body.detailed_results[6].difficulty = "MEDIUM"
        /\ \E i, j \in 1..Len(resp[c].body.detailed_results) :
                /\ resp[c].body.detailed_results[i].is_correct
                /\ ~resp[c].body.detailed_results[j].is_correct

----------------------------------------------------------------------------
(* Properties of requests that overlap, checked under SpecSeparate and      *)
(* SpecShared                                                               *)

\* the step is a request of client c, or a step of its generate request
Acts(c) ==
    <<resp[c], req[c], gen[c], db_call[c]>>' # <<resp[c], req[c], gen[c], db_call[c]>>

\* the correct labels a breakdown reports
Reported(entries) == [i \in 1..Len(entries) |-> entries[i].correct_answer]

\* C19: in every interleaving of the requests of two sessions, a step of a
\* request of one session leaves the other session as it is (its stored topic
\* and questions are neither created, changed nor cleared), and a submit is
\* scored against the questions of the session it was sent in.
C19_SessionScoped ==
    [][\A c \in Clients :
        Acts(c) =>
            /\ \A b \in Browsers \ {BrowserOf(c)} : session'[b] = session[b]
            /\ (resp'[c].op = "submit" /\ resp'[c].from = "handler"
                    /\ resp'[c].status = 200) =>
                    /\ HasQuiz(session[BrowserOf(c)])
                    /\ Reported(resp'[c].body.detailed_results)
                        = Labelling(session[BrowserOf(c)]["current_questions"])
                    /\ resp'[c].body.topic = session[BrowserOf(c)]["current_topic"]]_vars

\* a submit of one session was scored while a generate request of the other
\* session was in flight, the other session holding a quiz with other correct
\* labels and another topic
C19_Witness ==
    \E c, d \in Clients :
        /\ BrowserOf(c) # BrowserOf(d)
        /\ Scored(c)
        /\ gen[d].pc = "HARD"
        /\ HasQuiz(session[BrowserOf(d)])
        /\ Labelling(session[BrowserOf(d)]["current_questions"])
                # Reported(resp[c].body.detailed_results)
        /\ session[BrowserOf(d)]["current_topic"] # resp[c].body.topic

\* the stored topic and the stored questions of a session, each if present
QuizOf(s) ==
    [topic |-> IF Has(s, "current_topic") THEN <<s["current_topic"]>> ELSE <<>>,
     questions |-> IF Has(s, "current_questions")
                   THEN <<s["current_questions"]>> ELSE <<>>]

\* C20: when generate requests of one session overlap, every change of the
\* stored quiz is the work of one request: the session then holds the topic
\* and the questions that request's generation returned, both from the same
\* generation, and the last response to arrive decides the stored quiz.
C20_LastWriter ==
    [][\A b \in Browsers :
        (QuizOf(session'[b]) # QuizOf(session[b])) =>
            \E c \in Clients :
                /\ BrowserOf(c) = b
                /\ gen[c].pc = "HARD"
                /\ Composed(c)'
                /\ QuizOf(session'[b]) =
                        [topic |-> <<resp'[c].body.topic>>,
                         questions |-> <<resp'[c].body.questions>>]]_vars

\* two generate requests of one session, both sent before either was
\* answered, returned quizzes on different topics with different correct
\* labels; the session holds the quiz of one of them
C20_Witness ==
    \E c, d \in Clients :
        /\ c # d
        /\ BrowserOf(c) = BrowserOf(d)
        /\ Composed(c)
        /\ Composed(d)
        /\ ~HasQuiz(gen[c].cookie)
        /\ ~HasQuiz(gen[d].cookie)
        /\ resp[c].body.topic # resp[d].body.topic
        /\ Labelling(resp[c].body.questions) # Labelling(resp[d].body.questions)
        /\ QuizOf(session[BrowserOf(c)]) =
                [topic |-> <<resp[d].body.topic>>,
                 questions |-> <<resp[d].body.questions>>]

----------------------------------------------------------------------------
(* Properties of the stored quiz and of saving, checked under Spec *)

\* C21: a session holds no question list or one of exactly 10 questions; a
\* scored submit therefore had exactly 10 answers, and the total of 10 in its
\* response is the number of entries of detailed_results.
C21_TenStored ==
    /\ \A b \in Browsers :
            Has(session[b], "current_questions")
                => Len(session[b]["current_questions"]) = 10
    /\ \A c \in Clients :
            Scored(c) =>
                /\ Len(req[c]["answers"]) = 10
                /\ resp[c].body.total = 10
                /\ Len(resp[c].body.detailed_results) = resp[c].body.total

\* a submit of ten answers was scored against ten stored questions
C21_Witness ==
    \E c \in Clients :
        /\ Scored(c)
        /\ Len(req[c]["answers"]) = 10
        /\ Len(resp[c].body.detailed_results) = 10
        /\ Len(gen[c].cookie["current_questions"]) = 10

\* C22: a scored submit has called create_game_history, once, with the user
\* of its session and the topic, score and outcome of its response; saved is
\* the success flag of that call; the response reports success and the quiz
\* is gone from the session also when the call failed. A request that is not
\* a scored submit has made no call.
C22_SavedOnce ==
    \A c \in Clients :
        /\ Scored(c) =>
                /\ db_call[c].called
                /\ db_call[c].user_id = gen[c].cookie["user_id"]
                /\ db_call[c].topic = resp[c].body.topic
                /\ db_call[c].score = resp[c].body.score
                /\ db_call[c].result = resp[c].body.result
                /\ resp[c].body.saved = db_call[c].ok
                /\ resp[c].body.success
                /\ ~Has(session[BrowserOf(c)], "current_questions")
                /\ ~Has(session[BrowserOf(c)], "current_topic")
                /\ db_call[c].ok =>
                        /\ history # <<>>
                        /\ Last(history).user_id = db_call[c].user_id
                        /\ Last(history).result = db_call[c].result
        /\ ~Scored(c) => ~db_call[c].called

\* the database refused the game of the second user: the submit reports
\* success with saved false and the quiz is gone
C22_Witness ==
    \E c \in Clients :
        /\ Scored(c)
        /\ ~resp[c].body.saved
        /\ db_call[c].called
        /\ db_call[c].user_id = 2
        /\ ~HasQuiz(session[BrowserOf(c)])

\* C23: the topic a scored submit returns and hands to create_game_history is
\* the topic of the submit request when that is not empty, else the topic
\* stored with the quiz; it is 'Unknown Topic' only when the request gives
\* none and the session stores none.
C23_TopicPrecedence ==
    \A c \in Clients :
        Scored(c) =>
            LET given == Get(req[c], "topic", <<>>)
                stored == gen[c].cookie
            IN
            /\ db_call[c].topic = resp[c].body.topic
            /\ (given # <<>>) => resp[c].body.topic = given
            /\ (given = <<>> /\ Has(stored, "current_topic"))
                    => resp[c].body.topic = stored["current_topic"]
            /\ (resp[c].body.topic = UnknownTopic)
                    => (given = <<>> /\ ~Has(stored, "current_topic"))

\* a submit that named a topic other than the stored one was scored and saved
\* under the topic it named
C23_Witness ==
    \E c \in Clients :
        /\ Scored(c)
        /\ Has(req[c], "topic")
        /\ req[c]["topic"] # gen[c].cookie["current_topic"]
        /\ db_call[c].topic = req[c]["topic"]

\* a topic of no characters or of whitespace only
Blank(t) == \A i \in 1..Len(t) : t[i] = " "

\* u is t without its leading and trailing whitespace
TrimOf(u, t) ==
    /\ u # <<>>
    /\ Head(u) # " "
    /\ u[Len(u)] # " "
    /\ \E i \in 0..Len(t) :
            /\ i + Len(u) <= Len(t)
            /\ SubSeq(t, i + 1, i + Len(u)) = u
            /\ \A k \in 1..Len(t) : (k <= i \/ k > i + Len(u)) => t[k] = " "

\* client c's last request is a generate request of a logged-in session that
\* had a body
GenerateAsked(c) ==
    /\ resp[c].op = "generate"
    /\ is_logged_in(gen[c].cookie)
    /\ ~IsNone(req[c])

\* C24: a generate request whose topic is empty or whitespace is answered by
\* the failure 'Topic is required', with no call of the generation service
\* and the session as it was; for any other topic every call, the returned
\* quiz and the stored quiz carry the topic without its leading and trailing
\* whitespace.
C24_TopicTrimmed ==
    \A c \in Clients :
        GenerateAsked(c) =>
            LET t == Get(req[c], "topic", <<>>) IN
            IF Blank(t)
            THEN /\ resp[c] = Json("generate", 400, Fail("Topic is required"))
                 /\ gen[c].pc = "idle"
                 /\ gen[c].calls = <<>>
                 /\ session[BrowserOf(c)] = gen[c].cookie
            ELSE /\ gen[c].pc # "idle" => TrimOf(gen[c].topic, t)
                 /\ \A i \in 1..Len(gen[c].calls) : TrimOf(gen[c].calls[i].topic, t)
                 /\ gen[c].pc = "idle" => gen[c].calls # <<>>
                 /\ Composed(c) =>
                        /\ TrimOf(resp[c].body.topic, t)
                        /\ TrimOf(session[BrowserOf(c)]["current_topic"], t)

\* a generate request with a topic of one space was rejected in a session
\* that holds a quiz
C24_Witness ==
    \E c \in Clients :
        /\ GenerateAsked(c)
        /\ req[c] = [topic |-> <<" ">>]
        /\ resp[c].status = 400
        /\ HasQuiz(session[BrowserOf(c)])

\* client c's last request is a submit of a logged-in session with a stored
\* quiz, and it sent fewer or more answers than the quiz has questions
Mismatched(c) ==
    /\ resp[c].op = "submit"
    /\ gen[c].pc = "idle"
    /\ is_logged_in(gen[c].cookie)
    /\ ~IsNone(req[c])
    /\ HasQuiz(gen[c].cookie)
    /\ Len(Get(req[c], "answers", <<>>)) # Len(gen[c].cookie["current_questions"])

\* C25: a submit with the wrong number of answers is rejected and leaves the
\* session, with the stored topic and questions, as it was; a submit with the
\* right number that follows is scored against that same quiz.
C25_MismatchKeepsQuiz ==
    [][\A c \in Clients :
        /\ Mismatched(c)' =>
                /\ resp'[c].status = 400
                /\ session'[BrowserOf(c)] = gen'[c].cookie
        /\ (Mismatched(c) /\ Accepted(c)) =>
                /\ Reported(resp'[c].body.detailed_results)
                        = Labelling(gen[c].cookie["current_questions"])
                /\ Len(req'[c]["answers"]) = Len(gen[c].cookie["current_questions"])
                /\ resp'[c].body.topic \in
                        {gen[c].cookie["current_topic"]} \cup SubmitTopics]_vars

\* nine answers were sent for ten questions and the quiz is still stored
C25_Witness ==
    \E c \in Clients :
        /\ Mismatched(c)
        /\ Len(Get(req[c], "answers", <<>>)) = 9
        /\ HasQuiz(session[BrowserOf(c)])
        /\ session[BrowserOf(c)] = gen[c].cookie

----------------------------------------------------------------------------
(* Properties of overlapping submits, checked under SpecOverlap *)

\* the games_played of all users together
RECURSIVE PlayedBy(_)
PlayedBy(us) ==
    IF us = {} THEN 0
    ELSE LET u == CHOOSE x \in us : TRUE
         IN stats[u].games_played + PlayedBy(us \ {u})

\* C26: under any interleaving of the submit requests of one session a stored
\* quiz is scored and recorded at most once: once the session has turned to
\* submitting, at most one call of create_game_history is made, at most one
\* game_history row is written and games_played grows by at most one.
C26_ScoredOnce ==
    /\ Cardinality({c \in Shared : db_call[c].called}) <= 1
    /\ Len(history) <= 1
    /\ PlayedBy(Users) <= 1

----------------------------------------------------------------------------
(* Properties of the history and the counters, checked under SpecHistory *)

\* the history_ids of the games saved for user u, deleted since or not
SavedFor(u) == {i \in 1..Len(history) : history[i].user_id = u}

WonBy(u) == {i \in SavedFor(u) : history[i].result = "WON"}

DeleteAsked(c) ==
    /\ resp[c].op = "delete"
    /\ is_logged_in(gen[c].cookie)
    /\ resp[c].body.message # Msg("Database connection failed", <<>>)

\* the rows removed from the table by the step
Removed == {i \in 1..Len(history) : history[i].present /\ ~history'[i].present}

\* C28: a history deletion removes an entry only when it belongs to the
\* requesting user; for an entry of another user and for a missing entry it
\* answers 'History entry not found' and removes nothing; no deletion changes
\* games_played or games_won of any user.
C28_OwnEntriesOnly ==
    [][\A c \in Clients :
        /\ resp'[c].op = "delete" => stats' = stats
        /\ DeleteAsked(c)' =>
                LET id == req'[c].history_id
                    user_id == get_current_user_id(gen'[c].cookie)
                IN /\ stats' = stats
                   /\ Len(history') = Len(history)
                   /\ Removed \subseteq {id}
                   /\ \A i \in Removed : history[i].user_id = user_id
                   /\ IF id \in 1..Len(history) /\ history[id].present
                            /\ history[id].user_id = user_id
                      THEN /\ Removed = {id}
                           /\ resp'[c].status = 200
                      ELSE /\ history' = history
                           /\ resp'[c].status = 404
                           /\ resp'[c].body = Fail("History entry not found")]_vars

\* user 2 asked to delete the entry of user 1 and was told it was not found
C28_Witness ==
    \E c \in Clients :
        /\ DeleteAsked(c)
        /\ req[c].history_id \in 1..Len(history)
        /\ history[req[c].history_id].present
        /\ history[req[c].history_id].user_id # get_current_user_id(gen[c].cookie)
        /\ resp[c].body = Fail("History entry not found")

----------------------------------------------------------------------------
(* Properties of logging out, checked under Spec *)

\* the last request of client c was a generate or a submit sent while the
\* session was logged out
LoggedOutRequest(c) ==
    /\ resp[c].op \in {"generate", "submit"}
    /\ ~is_logged_in(gen[c].cookie)

\* C29: a logout leaves the session empty, stored quiz included; a login that
\* follows it brings no quiz back, a session without a quiz gets one only by a
\* generate that succeeds, and until then a submit with a body is answered
\* 'No active quiz found'; a generate or a submit of a logged-out session is
\* answered 'Not logged in' with no call of the generation service, no
\* scoring, no call of create_game_history and the session as it was.
C29_LogoutClears ==
    \A c \in Solo :
        /\ resp[c].op = "logout" => session[BrowserOf(c)] = <<>>
        /\ (resp[c].op = "login" /\ ~HasQuiz(gen[c].cookie)) =>
                ~HasQuiz(session[BrowserOf(c)])
        /\ (HasQuiz(session[BrowserOf(c)]) /\ ~HasQuiz(gen[c].cookie)) =>
                /\ gen[c].pc = "idle"
                /\ Composed(c)
        /\ (resp[c].op = "submit" /\ is_logged_in(gen[c].cookie)
                /\ ~HasQuiz(gen[c].cookie) /\ ~IsNone(req[c])) =>
                /\ resp[c].status = 400
                /\ resp[c].body = Fail("No active quiz found")
                /\ ~db_call[c].called
        /\ LoggedOutRequest(c) =>
                /\ gen[c].pc = "idle"
                /\ resp[c].status = 401
                /\ resp[c].body = Fail("Not logged in")
                /\ gen[c].calls = <<>>
                /\ ~db_call[c].called
                /\ session[BrowserOf(c)] = gen[c].cookie

\* a session that held a quiz logged out and is empty
C29_Witness ==
    \E c \in Solo :
        /\ resp[c].op = "logout"
        /\ HasQuiz(gen[c].cookie)
        /\ session[BrowserOf(c)] = <<>>

----------------------------------------------------------------------------
(* Properties of the usernames, checked under SpecAccounts *)

\* no two rows of the table hold the same username
Distinct(rows) ==
    \A i, j \in 1..Len(rows) : rows[i] = rows[j] => i = j

\* the step is a call of the database function op by client c that got a
\* connection
Calls(c, op) ==
    /\ Acts(c)
    /\ gen[c].pc = "idle"
    /\ resp'[c].op = op
    /\ resp'[c].body # Fail("Database connection failed")

====
